---- MODULE Spec2Model ----
(***************************************************************************)
(* Models of three programs of the repository.                             *)
(* 2021 day 19, the scanner registration: exact integer vectors and        *)
(* matrices, the rotation walk, Scan::parse, the Scan point cloud with its *)
(* distance index, Scan::align, and the registration loop of               *)
(* main_or_error.                                                          *)
(* 2021 day 21: DiracGame.                                                 *)
(* 2021 day 18: snailfish numbers, their reduction and node_sum.           *)
(***************************************************************************)
EXTENDS Integers, Sequences, FiniteSets, TLC

VARIABLES
    walks,      \* there_are_24_rotations, once per walker: the iterator, t, h
    input,      \* the point sets of the input file, in file order
    scans,      \* Vec<Scan> of main_or_error
    core,       \* the reference Scan (<<>> until it is popped)
    scanners,   \* Vec<Vector> of resolved scanner positions
    done,       \* the loop flag of main_or_error
    pc,         \* position of main_or_error
    i,          \* position of the for loop in scans (1-based)
    pass,       \* number of the pass being run, saturating at MaxPass
    report,     \* what main_or_error prints: <<beacon count, max distance>>
    rot,        \* Matrix * Vector: two points, and their images under a product
    parser,     \* Scan::parse: the lines of the file, the position, the open block
    game,       \* day 21: the DiracGame
    fish        \* day 18: the snailfish numbers being added

vars == <<walks, input, scans, core, scanners, done, pc, i, pass, report,
          rot, parser, game, fish>>

(***************************************************************************)
(* Option<T>: None is the empty tuple, Some(x) the one-element tuple.      *)
(***************************************************************************)
None == <<>>

Some(x) == <<x>>

IsSome(o) == o # <<>>

Unwrap(o) == o[1]

(***************************************************************************)
(* vector.rs                                                               *)
(***************************************************************************)
IAbs(n) == IF n < 0 THEN -n ELSE n

\* mutant: the coordinates are added without their absolute values
VSum(v) == v[1] + v[2] + v[3]

VAbs(v) == IAbs(v[1]) + IAbs(v[2]) + IAbs(v[3])

VSub(a, b) == <<a[1] - b[1], a[2] - b[2], a[3] - b[3]>>

VAdd(a, b) == <<a[1] + b[1], a[2] + b[2], a[3] + b[3]>>

Origin == <<0, 0, 0>>

(***************************************************************************)
(* matrix.rs                                                               *)
(***************************************************************************)
Roll == << <<1, 0, 0>>, <<0, 0, -1>>, <<0, 1, 0>> >>

Turn == << <<0, 1, 0>>, <<-1, 0, 0>>, <<0, 0, 1>> >>

Default == << <<1, 0, 0>>, <<0, 1, 0>>, <<0, 0, 1>> >>

\* mutant: the last row takes its last term from the wrong coordinate
MulMVTypo(m, v) ==
    << m[1][1] * v[1] + m[1][2] * v[2] + m[1][3] * v[3],
       m[2][1] * v[1] + m[2][2] * v[2] + m[2][3] * v[3],
       m[3][1] * v[1] + m[3][2] * v[2] + m[3][3] * v[2] >>

MulMV(m, v) ==
    << m[1][1] * v[1] + m[1][2] * v[2] + m[1][3] * v[3],
       m[2][1] * v[1] + m[2][2] * v[2] + m[2][3] * v[3],
       m[3][1] * v[1] + m[3][2] * v[2] + m[3][3] * v[3] >>

\* mutant: the last entry of a row takes its middle term from the wrong column
MulRowTypo(r, b) ==
    << r[1] * b[1][1] + r[2] * b[2][1] + r[3] * b[3][1],
       r[1] * b[1][2] + r[2] * b[2][2] + r[3] * b[3][2],
       r[1] * b[1][3] + r[2] * b[2][2] + r[3] * b[3][3] >>

MulRow(r, b) ==
    << r[1] * b[1][1] + r[2] * b[2][1] + r[3] * b[3][1],
       r[1] * b[1][2] + r[2] * b[2][2] + r[3] * b[3][2],
       r[1] * b[1][3] + r[2] * b[2][3] + r[3] * b[3][3] >>

MulMM(a, b) == << MulRow(a[1], b), MulRow(a[2], b), MulRow(a[3], b) >>

SwapStep == MulMM(MulMM(MulMM(Roll, Roll), Turn), Roll)

WalkLimit == 12

RollEvery == 4

RotationWalkDefault == [swap |-> FALSE, step |-> 0]

\* mutant: the second half of the walk restarts at step 0
WalkNextRestarts(w) ==
    IF w.step >= WalkLimit
    THEN IF w.swap
         THEN [item |-> None, walk |-> w]
         ELSE [item |-> Some(SwapStep), walk |-> [swap |-> TRUE, step |-> 0]]
    ELSE [item |-> Some(IF w.step % RollEvery = 0 THEN Roll ELSE Turn),
          walk |-> [w EXCEPT !.step = w.step + 1]]

\* RotationWalk::next: the item yielded (None at the end) and the iterator after
WalkNext(w) ==
    IF w.step >= WalkLimit
    THEN IF w.swap
         THEN [item |-> None, walk |-> w]
         ELSE [item |-> Some(SwapStep), walk |-> [swap |-> TRUE, step |-> 1]]
    ELSE [item |-> Some(IF w.step % RollEvery = 0 THEN Roll ELSE Turn),
          walk |-> [w EXCEPT !.step = w.step + 1]]

\* The running products a = r * a of one walk, in walk order (vector.rs 18-21,
\* matrix.rs 167-169), starting from the product a already reached.
RECURSIVE WalkProducts(_, _)
WalkProducts(w, a) ==
    LET n == WalkNext(w)
    IN  IF IsSome(n.item)
        THEN LET a2 == MulMM(Unwrap(n.item), a)
             IN  <<a2>> \o WalkProducts(n.walk, a2)
        ELSE <<>>

Products == WalkProducts(RotationWalkDefault, Default)

\* mutant: the walk is not left at the first hit, the last one is returned
LastProduct(hits) ==
    IF hits = {} THEN None
    ELSE Some(Products[CHOOSE k \in hits : \A j \in hits : k >= j])

\* vector.rs 22-26: the first of the running products that hit, if any
FirstProduct(hits) ==
    IF hits = {} THEN None
    ELSE Some(Products[CHOOSE k \in hits : \A j \in hits : k <= j])

\* Vector::rotates_into: the first running product of the walk that maps w to v
RotatesInto(w, v) ==
    CHOOSE r \in {FirstProduct(hits) :
                    hits \in {{k \in 1..Len(Products) : v = MulMV(Products[k], w)}}} : TRUE

(***************************************************************************)
(* main.rs: Scan                                                           *)
(***************************************************************************)
MINIMUM_OVERLAP_FOR_ALIGNMENT == 12

\* the (v, w) that refresh_edges visits and does not skip
EdgePairs(blips) == {p \in blips \X blips : p[1] # p[2]}

EdgeKey(p) == VAbs(VSub(p[2], p[1]))

\* Scan::refresh_edges, lines 39-43: the pairs are added to the classes of
\* their keys; a class that is there keeps what it holds
AddPairs(edges, pairs) ==
    [d \in DOMAIN edges \cup {EdgeKey(p) : p \in pairs} |->
        (IF d \in DOMAIN edges THEN edges[d] ELSE {})
        \cup {p \in pairs : EdgeKey(p) = d}]

\* Scan::refresh_edges (each set is bound once it is computed)
RefreshEdges(s) ==
    CHOOSE r \in {[s EXCEPT !.edges = AddPairs(s.edges, pairs)]
                    : pairs \in {EdgePairs(s.blips)}} : TRUE

\* impl From<HashSet<Vector>> for Scan
ScanFrom(blips) ==
    RefreshEdges([blips |-> blips, edges |-> <<>>, transformation |-> None])

\* mutant: the translation is taken from the wrong end of the candidate pair
PosesOfWrongAnchor(vp, wp) ==
    {<<a[1], VSub(vp[1], MulMV(a[1], wp[2]))>> :
        a \in {r \in {RotatesInto(VSub(wp[2], wp[1]), VSub(vp[2], vp[1]))} : IsSome(r)}}

\* main.rs 74-77: the pose tested for a reference pair and a candidate pair,
\* as a set: empty when rotates_into returns None
PosesOf(vp, wp) ==
    {<<a[1], VSub(vp[1], MulMV(a[1], wp[1]))>> :
        a \in {r \in {RotatesInto(VSub(wp[2], wp[1]), VSub(vp[2], vp[1]))} : IsSome(r)}}

\* main.rs 78: h
Mapped(blips, pose) == {VAdd(MulMV(pose[1], w), pose[2]) : w \in blips}

\* mutant: the mapped points are counted, not those found in the reference
OverlapCountOfMapped(self, h) == Cardinality(h)

\* main.rs 79: n
OverlapCount(self, h) == Cardinality({b \in self.blips : b \in h})

\* mutant: the threshold is off by one
AcceptsEleven(n) == n >= MINIMUM_OVERLAP_FOR_ALIGNMENT - 1

\* main.rs 80
Accepts(n) == n >= MINIMUM_OVERLAP_FOR_ALIGNMENT

\* main.rs 63-65
Shared(self, them) == DOMAIN self.edges \cap DOMAIN them.edges

\* main.rs 66-70: the sort key of a shared distance
SortKey(self, them, d) == Cardinality(self.edges[d])

\* main.rs 72-80: the poses of class d that pass the test of line 80
AcceptedIn(self, them, d) ==
    {p \in UNION {PosesOf(vp, wp) : vp \in self.edges[d], wp \in them.edges[d]} :
        Accepts(OverlapCount(self, Mapped(them.blips, p)))}

\* mutant: the search ends with the first class, whatever it finds
HitsOfFirstClass(self, them) ==
    UNION {{<<SortKey(self, them, d), p>> : p \in AcceptedIn(self, them, d)}
            : d \in {c \in Shared(self, them) :
                        \A e \in Shared(self, them) :
                            \/ SortKey(self, them, c) < SortKey(self, them, e)
                            \/ (SortKey(self, them, c) = SortKey(self, them, e) /\ c <= e)}}

\* every accepted pose with the sort key of its class
Hits(self, them) ==
    UNION {{<<SortKey(self, them, d), p>> : p \in AcceptedIn(self, them, d)}
            : d \in Shared(self, them)}

\* the poses that some visiting order reaches first: those of the classes of
\* least sort key
Firsts(hits) == {x[2] : x \in {y \in hits : \A z \in hits : y[1] <= z[1]}}

\* Scan::align, the search (62-80, 91): every Transformation the call can
\* return.  The classes are visited in ascending SortKey order; classes of
\* equal key, and the pairs inside a class, are visited in the iteration order
\* of a HashSet, which is not determined.  The empty set stands for None.
AlignResults(self, them) == UNION {Firsts(hits) : hits \in {Hits(self, them)}}

\* mutant: the mapped points replace the reference's points
MergeReplaces(self, h) == RefreshEdges([self EXCEPT !.blips = h])

\* mutant: the mapped points are not inserted
MergeForgets(self, h) == RefreshEdges(self)

\* mutant: the index is not refreshed after the insertions
MergeWithoutRefresh(self, h) == [self EXCEPT !.blips = self.blips \cup h]

\* mutant: the index is rebuilt from the inserted points alone
MergeIndexesInserted(self, h) ==
    [self EXCEPT !.blips = self.blips \cup h,
                 !.edges = AddPairs(<<>>, EdgePairs(h))]

\* Scan::align, the merge (81-82) into self
Merge(self, h) == RefreshEdges([self EXCEPT !.blips = self.blips \cup h])

(***************************************************************************)
(* The input files.  Each is built from clouds given in their own frames   *)
(* and a pose (R, t): the first cloud of the file holds the images R*p + t *)
(* of points of the second.                                                *)
(***************************************************************************)
MaxShift == 1

MaxPass == 4

CloudA ==
    { <<-8, -7, 4>>, <<-8, -7, 8>>, <<-8, -2, -8>>, <<-8, 7, -3>>,
      <<-8, 9, -6>>, <<-7, 8, 4>>, <<-6, 2, 9>>, <<-2, 9, -8>>,
      <<1, -5, 3>>, <<4, -7, -2>>, <<8, -5, 0>>, <<9, 9, 3>> }

CloudB ==
    { <<-7, 9, -8>>, <<-6, 9, 0>>, <<-3, 6, 8>>, <<-2, -7, 9>>,
      <<0, -2, -4>>, <<0, 7, 6>>, <<2, -6, 8>>, <<4, -5, 8>>,
      <<4, 1, 5>>, <<8, -4, -6>>, <<9, 5, 2>>, <<9, 9, -3>> }

\* CloudB seen from a third scanner: CloudB = Mapped(CloudC, RelPose)
CloudC ==
    { <<-10, -10, -10>>, <<-8, 3, 5>>, <<-6, 1, -3>>, <<-5, -10, 6>>,
      <<-2, -10, -9>>, <<0, -6, 6>>, <<3, -2, 1>>, <<4, -8, -3>>,
      <<6, -7, -6>>, <<6, 4, 1>>, <<6, 5, -1>>, <<7, 6, -5>> }

RelPose == <<Products[5], <<3, -1, 2>>>>

\* points seen by one scanner only
Extra == { <<-7, -6, 7>>, <<1, 5, 0>> }

Unrelated == { <<40, 1, 2>>, <<3, 50, -7>> }

Stranger == { <<0, 0, 0>>, <<5, 1, 2>>, <<1, 7, -3>> }

\* twelve points on one axis
Line ==
    { <<0, 0, 0>>, <<1, 0, 0>>, <<3, 0, 0>>, <<4, 0, 0>>, <<7, 0, 0>>,
      <<8, 0, 0>>, <<12, 0, 0>>, <<13, 0, 0>>, <<18, 0, 0>>, <<19, 0, 0>>,
      <<25, 0, 0>>, <<26, 0, 0>> }

\* 12 points on a line that a half turn maps onto themselves
Mirror ==
    { <<-9, 0, 0>>, <<-8, 0, 0>>, <<-5, 0, 0>>, <<-4, 0, 0>>, <<-2, 0, 0>>,
      <<-1, 0, 0>>, <<1, 0, 0>>, <<2, 0, 0>>, <<4, 0, 0>>, <<5, 0, 0>>,
      <<8, 0, 0>>, <<9, 0, 0>> }

\* three points of CloudA
Few == { <<-8, -7, 4>>, <<1, -5, 3>>, <<9, 9, 3>> }

Dropped == <<9, 9, 3>>

Shift(s) == <<s, -2 * s, 2 * s>>

PoseAt(sc) == <<Products[sc.rot], Shift(sc.shift)>>

FewRotations == {12, 24}

Scenarios ==
    [kind : {"pair"}, rot : 1..Len(Products), shift : 0..MaxShift]
    \cup [kind : {"stall", "chain", "eleven", "line"},
          rot : FewRotations, shift : {0, MaxShift}]
    \cup [kind : {"relay", "star", "mirror", "few"},
          rot : {Len(Products)}, shift : {MaxShift}]
    \cup [kind : {"single", "lonely", "empty"}, rot : {1}, shift : {0}]

InputOf(sc) ==
    LET pose == PoseAt(sc)
    IN  CASE sc.kind = "pair" ->
               << Mapped(CloudA, pose) \cup Unrelated, CloudA \cup Extra >>
          [] sc.kind = "stall" ->
               << Mapped(CloudA, pose) \cup Unrelated, CloudA \cup Extra, Stranger >>
          [] sc.kind = "chain" ->
               << Mapped(CloudA, pose), CloudA \cup CloudB, CloudC >>
          [] sc.kind = "relay" ->
               << Mapped(CloudA, pose), CloudC, CloudA \cup CloudB >>
          [] sc.kind = "star" ->
               << Mapped(CloudA, pose) \cup CloudB, CloudA \cup Extra, CloudC >>
          [] sc.kind = "eleven" ->
               << Mapped(CloudA \ {Dropped}, pose) \cup Unrelated, CloudA >>
          [] sc.kind = "line" ->
               << Mapped(Line, pose), Line >>
          [] sc.kind = "few" ->
               << Mapped(Few, pose), CloudA >>
          [] sc.kind = "mirror" ->
               << Mapped(Mirror, pose), Mirror >>
          [] sc.kind = "single" -> << CloudA >>
          [] sc.kind = "lonely" -> << {<<0, 0, 0>>}, {<<1, 1, 1>>} >>
          [] OTHER -> << >>

(***************************************************************************)
(* main.rs: main_or_error                                                  *)
(***************************************************************************)
WalkerInit == [walk |-> RotationWalkDefault, t |-> Default, h |-> {},
               out |-> <<>>, ended |-> FALSE]

NumWalkers == 2

\* Scan::parse has returned the scans of the file (94-121, 129)
Init ==
    /\ \E sc \in Scenarios : input = InputOf(sc)
    /\ scans = [k \in 1..Len(input) |-> ScanFrom(input[k])]
    /\ core = None
    /\ scanners = <<>>
    /\ done = FALSE
    /\ pc = "start"
    /\ i = 0
    /\ pass = 0
    /\ report = None
    /\ walks = [w \in 1..NumWalkers |-> WalkerInit]
    /\ rot = None
    /\ parser = None
    /\ game = None
    /\ fish = None

Reverse(s) == [k \in 1..Len(s) |-> s[Len(s) + 1 - k]]

\* mutant: the scans are not reversed, so the last cloud is popped
StartWithoutReverse ==
    /\ pc = "start"
    /\ scanners' = <<Origin>>
    /\ IF Len(scans) = 0
       THEN /\ pc' = "EmptyInput"
            /\ UNCHANGED <<scans, core, done>>
       ELSE /\ core' = Some(scans[Len(scans)])
            /\ scans' = SubSeq(scans, 1, Len(scans) - 1)
            /\ done' = FALSE
            /\ pc' = "while"
    /\ UNCHANGED <<rot, parser, game, fish>>
    /\ UNCHANGED <<walks, input, i, pass, report>>

\* mutant: the reference is read from the end of the list but stays in it
StartKeepsReference ==
    /\ pc = "start"
    /\ scanners' = <<Origin>>
    /\ IF Len(scans) = 0
       THEN /\ pc' = "EmptyInput"
            /\ UNCHANGED <<scans, core, done>>
       ELSE /\ core' = Some(Reverse(scans)[Len(scans)])
            /\ scans' = Reverse(scans)
            /\ done' = FALSE
            /\ pc' = "while"
    /\ UNCHANGED <<rot, parser, game, fish>>
    /\ UNCHANGED <<walks, input, i, pass, report>>

\* 131-136: push the origin, reverse, pop the reference
Start ==
    /\ pc = "start"
    /\ scanners' = <<Origin>>
    /\ IF Len(scans) = 0
       THEN /\ pc' = "EmptyInput"
            /\ UNCHANGED <<scans, core, done>>
       ELSE /\ core' = Some(Reverse(scans)[Len(scans)])
            /\ scans' = SubSeq(Reverse(scans), 1, Len(scans) - 1)
            /\ done' = FALSE
            /\ pc' = "while"
    /\ UNCHANGED <<rot, parser, game, fish>>
    /\ UNCHANGED <<walks, input, i, pass, report>>

\* 138-140: the loop test found !done
WhileEnter ==
    /\ pc = "while"
    /\ ~done
    /\ done' = TRUE
    /\ i' = 1
    /\ pass' = IF pass < MaxPass THEN pass + 1 ELSE pass
    /\ pc' = "for"
    /\ UNCHANGED <<rot, parser, game, fish>>
    /\ UNCHANGED <<walks, input, scans, core, scanners, report>>

\* 154-158
\* mutant: only the distances from the first scanner are compared
MaxDistanceFromFirst(s) ==
    LET ds == {VAbs(VSub(s[b], s[1])) : b \in 1..Len(s)} \cup {0}
    IN  CHOOSE m \in ds : \A d \in ds : d <= m

MaxDistance(s) ==
    LET ds == {VAbs(VSub(s[b], s[a])) : a \in 1..Len(s), b \in 1..Len(s)} \cup {0}
    IN  CHOOSE m \in ds : \A d \in ds : d <= m

\* 138, 150-162: the loop test found done
WhileExit ==
    /\ pc = "while"
    /\ done
    /\ report' = Some(<<Cardinality(Unwrap(core).blips), MaxDistance(scanners)>>)
    /\ pc' = "done"
    /\ UNCHANGED <<rot, parser, game, fish>>
    /\ UNCHANGED <<walks, input, scans, core, scanners, done, i, pass>>

\* 140: the iterator over scans is exhausted
ForEnd ==
    /\ pc = "for"
    /\ i > Len(scans)
    /\ pc' = "while"
    /\ UNCHANGED <<rot, parser, game, fish>>
    /\ UNCHANGED <<walks, input, scans, core, scanners, done, i, pass, report>>

\* mutant: the test of line 141 is dropped
IsPendingAlways(scan) == TRUE

IsPending(scan) == scan.transformation = None

\* 141: the scan has a transformation
ForSkip ==
    /\ pc = "for"
    /\ i <= Len(scans)
    /\ ~IsPending(scans[i])
    /\ i' = i + 1
    /\ UNCHANGED <<rot, parser, game, fish>>
    /\ UNCHANGED <<walks, input, scans, core, scanners, done, pc, pass, report>>

\* mutant: done is not cleared
ForPendingKeepsDone ==
    /\ pc = "for"
    /\ i <= Len(scans)
    /\ IsPending(scans[i])
    /\ pc' = "align"
    /\ UNCHANGED <<rot, parser, game, fish>>
    /\ UNCHANGED <<walks, input, scans, core, scanners, i, pass, report, done>>

\* 141-143: the scan has none: done = false, and core.align(scan) is called
ForPending ==
    /\ pc = "for"
    /\ i <= Len(scans)
    /\ IsPending(scans[i])
    /\ done' = FALSE
    /\ pc' = "align"
    /\ UNCHANGED <<rot, parser, game, fish>>
    /\ UNCHANGED <<walks, input, scans, core, scanners, i, pass, report>>

\* mutant: a successful call leaves the candidate moved into the reference frame
AlignMovesCandidate ==
    /\ pc = "align"
    /\ \E res \in {AlignResults(Unwrap(core), scans[i])} :
          IF res = {}
          THEN UNCHANGED <<core, scans, scanners>>
          ELSE \E tr \in res :
                 /\ core' = Some(Merge(Unwrap(core), Mapped(scans[i].blips, tr)))
                 /\ scans' = [scans EXCEPT ![i] =
                        [ScanFrom(Mapped(scans[i].blips, tr))
                            EXCEPT !.transformation = Some(tr)]]
                 /\ scanners' = Append(scanners, tr[2])
    /\ i' = i + 1
    /\ pc' = "for"
    /\ UNCHANGED <<rot, parser, game, fish>>
    /\ UNCHANGED <<walks, input, done, pass, report>>

\* 62-92 and 143-145: core.align(scans[i]) runs and returns
Align ==
    /\ pc = "align"
    /\ \E res \in {AlignResults(Unwrap(core), scans[i])} :
          IF res = {}
          THEN UNCHANGED <<core, scans, scanners>>
          ELSE \E tr \in res :
                 /\ core' = Some(Merge(Unwrap(core), Mapped(scans[i].blips, tr)))
                 /\ scans' = [scans EXCEPT ![i].transformation = Some(tr)]
                 /\ scanners' = Append(scanners, tr[2])
    /\ i' = i + 1
    /\ pc' = "for"
    /\ UNCHANGED <<rot, parser, game, fish>>
    /\ UNCHANGED <<walks, input, done, pass, report>>

Next ==
    \/ Start
    \/ WhileEnter
    \/ WhileExit
    \/ ForEnd
    \/ ForSkip
    \/ ForPending
    \/ Align

Spec == Init /\ [][Next]_vars

\* the loop runs on whenever it can: the program is one sequential thread
FairSpec == Spec /\ WF_vars(Next)

(***************************************************************************)
(* matrix.rs: there_are_24_rotations, run by NumWalkers independent        *)
(* callers of Matrix::rotation_walk()                                      *)
(***************************************************************************)
InitWalk ==
    /\ walks = [w \in 1..NumWalkers |-> WalkerInit]
    /\ input = <<>>
    /\ scans = <<>>
    /\ core = None
    /\ scanners = <<>>
    /\ done = FALSE
    /\ pc = "test"
    /\ i = 0
    /\ pass = 0
    /\ report = None
    /\ rot = None
    /\ parser = None
    /\ game = None
    /\ fish = None

\* one turn of the for loop of lines 168-171: next(), then t = r * t, h.insert(t)
WalkStep(w) ==
    /\ pc = "test"
    /\ ~walks[w].ended
    /\ LET n == WalkNext(walks[w].walk)
       IN  IF IsSome(n.item)
           THEN LET t2 == MulMM(Unwrap(n.item), walks[w].t)
                IN  walks' = [walks EXCEPT ![w] =
                        [walk |-> n.walk, t |-> t2, h |-> walks[w].h \cup {t2},
                         out |-> Append(walks[w].out, Unwrap(n.item)),
                         ended |-> FALSE]]
           ELSE walks' = [walks EXCEPT ![w].walk = n.walk, ![w].ended = TRUE]
    /\ UNCHANGED <<input, scans, core, scanners, done, pc, i, pass, report>>
    /\ UNCHANGED <<rot, parser, game, fish>>

NextWalk == \E w \in 1..NumWalkers : WalkStep(w)

SpecWalk == InitWalk /\ [][NextWalk]_vars

(***************************************************************************)
(* Scan::parse and the head of main_or_error.  A line (trimmed) is the     *)
(* sequence of its comma-separated fields, as split(',') yields them; a    *)
(* field is the sequence of its characters.                                *)
(***************************************************************************)
DigitChars == {"0", "1", "2"}

DigitVal(c) == CASE c = "0" -> 0 [] c = "1" -> 1 [] c = "2" -> 2

RECURSIVE Decimal(_)
Decimal(ds) ==
    IF ds = <<>> THEN 0
    ELSE 10 * Decimal(SubSeq(ds, 1, Len(ds) - 1)) + DigitVal(ds[Len(ds)])

\* str::parse::<isize>: an optional sign and at least one digit, nothing else
ParseInt(f) ==
    LET signed == f # <<>> /\ f[1] \in {"-", "+"}
        body == IF signed THEN Tail(f) ELSE f
    IN  IF body = <<>> \/ \E k \in 1..Len(body) : body[k] \notin DigitChars
        THEN None
        ELSE Some(IF signed /\ f[1] = "-" THEN 0 - Decimal(body) ELSE Decimal(body))

\* line.is_empty()
IsEmptyLine(l) == l = << <<>> >>

\* line.starts_with("---")
IsHeaderLine(l) == Len(l[1]) >= 3 /\ SubSeq(l[1], 1, 3) = <<"-", "-", "-">>

BlankLine == << <<>> >>
HeaderLine == << <<"-", "-", "-">> >>
TripletLine == << <<"1">>, <<"-", "2">>, <<"1", "0">> >>
OtherTripletLine == << <<"2">>, <<"+", "1">>, <<"0">> >>
PairLine == << <<"1">>, <<"2">> >>
QuadLine == << <<"1">>, <<"2">>, <<"0">>, <<"1">> >>
WordLine == << <<"1">>, <<"x">>, <<"2">> >>
WordPairLine == << <<"1">>, <<"x">> >>

Lines ==
    {BlankLine, HeaderLine, TripletLine, OtherTripletLine,
     PairLine, QuadLine, WordLine, WordPairLine}

MaxLines == 3

Files == UNION {[1..n -> Lines] : n \in 0..MaxLines}

InitParse ==
    /\ walks = <<>>
    /\ input = <<>>
    /\ scans = <<>>
    /\ core = None
    /\ scanners = <<>>
    /\ done = FALSE
    /\ pc = "parse"
    /\ i = 0
    /\ pass = 0
    /\ report = None
    /\ rot = None
    /\ \E f \in Files : parser = [lines |-> f, pos |-> 1, blips |-> {}, err |-> None]
    /\ game = None
    /\ fish = None

\* 99-116: one turn of the while loop over the lines
ParseLine ==
    /\ pc = "parse"
    /\ parser.pos <= Len(parser.lines)
    /\ LET l == parser.lines[parser.pos]
           blip == [k \in 1..Len(l) |-> ParseInt(l[k])]
       IN  IF IsEmptyLine(l)
           THEN /\ parser' = [parser EXCEPT !.pos = parser.pos + 1]
                /\ UNCHANGED <<scans, pc>>
           ELSE IF IsHeaderLine(l)
           THEN /\ IF parser.blips # {}
                   THEN /\ scans' = Append(scans, ScanFrom(parser.blips))
                        /\ parser' = [parser EXCEPT !.pos = parser.pos + 1,
                                                    !.blips = {}]
                   ELSE /\ parser' = [parser EXCEPT !.pos = parser.pos + 1]
                        /\ UNCHANGED scans
                /\ UNCHANGED pc
           ELSE IF \E k \in 1..Len(blip) : blip[k] = None
           \* 112: map_err(InvalidPoint)?, main_or_error returns it and main
           \* prints it
           THEN /\ parser' = [parser EXCEPT !.err = Some(l)]
                /\ pc' = "InvalidPoint"
                /\ UNCHANGED scans
           ELSE IF Len(blip) < 3
           \* 113: blip[2] (or blip[1]) is out of bounds, the thread panics
           THEN /\ parser' = parser
                /\ pc' = "Panicked"
                /\ UNCHANGED scans
           ELSE /\ parser' = [parser EXCEPT
                        !.pos = parser.pos + 1,
                        !.blips = parser.blips \cup
                            {<<Unwrap(blip[1]), Unwrap(blip[2]), Unwrap(blip[3])>>}]
                /\ UNCHANGED <<scans, pc>>
    /\ UNCHANGED <<walks, input, core, scanners, done, i, pass, report>>
    /\ UNCHANGED <<rot, game, fish>>

\* mutant: the open block is pushed at the end of the file even when it is empty
ParseEndPushesAlways ==
    /\ pc = "parse"
    /\ parser.pos > Len(parser.lines)
    /\ \E all \in {Append(scans, ScanFrom(parser.blips))} :
          /\ scans' = all
          /\ input' = [k \in 1..Len(all) |-> all[k].blips]
    /\ parser' = [parser EXCEPT !.blips = {}]
    /\ pc' = "start"
    /\ UNCHANGED <<walks, core, scanners, done, i, pass, report>>
    /\ UNCHANGED <<rot, game, fish>>

\* 117-120: the lines are exhausted; parse returns Ok(scans)
ParseEnd ==
    /\ pc = "parse"
    /\ parser.pos > Len(parser.lines)
    /\ \E all \in {IF parser.blips # {}
                   THEN Append(scans, ScanFrom(parser.blips))
                   ELSE scans} :
          /\ scans' = all
          /\ input' = [k \in 1..Len(all) |-> all[k].blips]
    /\ parser' = [parser EXCEPT !.blips = {}]
    /\ pc' = "start"
    /\ UNCHANGED <<walks, core, scanners, done, i, pass, report>>
    /\ UNCHANGED <<rot, game, fish>>

NextParse == ParseLine \/ ParseEnd \/ Start

SpecParse == InitParse /\ [][NextParse]_vars

(***************************************************************************)
(* Matrix * Vector (matrix.rs 91-102) applied to two points: each of the   *)
(* products of the walk, in the order the walk reaches them, is applied to *)
(* both points.                                                            *)
(***************************************************************************)
MaxCoord == 1

Coords == (0 - MaxCoord)..MaxCoord

Points == {<<x, y, z>> : x \in Coords, y \in Coords, z \in Coords}

InitRotate ==
    /\ walks = <<>>
    /\ input = <<>>
    /\ scans = <<>>
    /\ core = None
    /\ scanners = <<>>
    /\ done = FALSE
    /\ pc = "rotate"
    /\ i = 0
    /\ pass = 0
    /\ report = None
    /\ \E p \in Points : \E q \in Points :
           rot = [p |-> p, q |-> q, k |-> 0, rp |-> p, rq |-> q]
    /\ parser = None
    /\ game = None
    /\ fish = None

\* &matrix * vector for the next product of the walk, on both points
Rotate ==
    /\ pc = "rotate"
    /\ rot.k < Len(Products)
    /\ rot' = [rot EXCEPT !.k = rot.k + 1,
                          !.rp = MulMV(Products[rot.k + 1], rot.p),
                          !.rq = MulMV(Products[rot.k + 1], rot.q)]
    /\ UNCHANGED <<walks, input, scans, core, scanners, done, pc, i, pass, report>>
    /\ UNCHANGED <<parser, game, fish>>

NextRotate == Rotate

SpecRotate == InitRotate /\ [][NextRotate]_vars

(***************************************************************************)
(* 2021 day 21: DiracGame.  The die is an iterator over usize: a range     *)
(* next.. (stop is None) or next..stop.                                    *)
(***************************************************************************)
BoardSize == 10

RollsPerRound == 3

\* Iterator::next of the range
DieNext(die) ==
    IF IsSome(die.stop) /\ die.next >= Unwrap(die.stop)
    THEN [item |-> None, die |-> die]
    ELSE [item |-> Some(die.next), die |-> [die EXCEPT !.next = die.next + 1]]

\* die.take_exactly(left).sum::<Option<usize>>(): the sum ends at the first
\* None that the die yields
RECURSIVE TakeExactlySum(_, _, _)
TakeExactlySum(die, left, acc) ==
    IF left = 0
    THEN [sum |-> Some(acc), die |-> die]
    ELSE LET n == DieNext(die)
         IN  IF IsSome(n.item)
             THEN TakeExactlySum(n.die, left - 1, acc + Unwrap(n.item))
             ELSE [sum |-> None, die |-> n.die]

\* DiracGame::new
NewGame(starting_positions, die, max) ==
    [round |-> 0,
     players |-> [k \in 1..Len(starting_positions) |->
                    [score |-> 0, field |-> starting_positions[k]]],
     die |-> Some(die),
     max |-> max,
     result |-> "New"]

\* DiracGame::has_ended
HasEnded(g) == g.die = None

ExampleMax == 1000

MaxPlayers == 2

MaxMax == 12

MaxDieStart == 2

MaxDieStop == 8

StartingPositions == UNION {[1..n -> 1..BoardSize] : n \in 1..MaxPlayers}

Dice ==
    {[next |-> s, stop |-> None] : s \in 1..MaxDieStart}
        \cup {[next |-> 1, stop |-> Some(e)] : e \in 1..MaxDieStop}

ExampleGame == NewGame(<<4, 8>>, [next |-> 1, stop |-> None], ExampleMax)

Games ==
    {NewGame(p, d, m) : p \in StartingPositions, d \in Dice, m \in 1..MaxMax}
        \cup {ExampleGame}

InitGame ==
    /\ walks = <<>>
    /\ input = <<>>
    /\ scans = <<>>
    /\ core = None
    /\ scanners = <<>>
    /\ done = FALSE
    /\ pc = "game"
    /\ i = 0
    /\ pass = 0
    /\ report = None
    /\ rot = None
    /\ parser = None
    /\ game \in Games
    /\ fish = None

\* mutant: the round is counted before the die is rolled
PlayRoundCountsFirst ==
    /\ pc = "game"
    /\ IF ~IsSome(game.die)
       THEN game' = [game EXCEPT !.round = game.round + 1, !.result = "GameEnded"]
       ELSE \E r \in {TakeExactlySum(Unwrap(game.die), RollsPerRound, 0)} :
              IF ~IsSome(r.sum)
              THEN game' = [game EXCEPT !.round = game.round + 1,
                                        !.die = Some(r.die), !.result = "BrokenDie"]
              ELSE LET index == (game.round % Len(game.players)) + 1
                       field == ((game.players[index].field + Unwrap(r.sum) - 1)
                                    % BoardSize) + 1
                       score == game.players[index].score + field
                   IN  game' = [game EXCEPT
                            !.players[index] = [score |-> score, field |-> field],
                            !.round = game.round + 1,
                            !.die = IF score >= game.max THEN None ELSE Some(r.die),
                            !.result = "Ok"]
    /\ UNCHANGED <<walks, input, scans, core, scanners, done, pc, i, pass, report>>
    /\ UNCHANGED <<rot, parser, fish>>

\* mutant: the game ends only when the score is above max
PlayRoundEndsAbove ==
    /\ pc = "game"
    /\ IF ~IsSome(game.die)
       THEN game' = [game EXCEPT !.result = "GameEnded"]
       ELSE \E r \in {TakeExactlySum(Unwrap(game.die), RollsPerRound, 0)} :
              IF ~IsSome(r.sum)
              THEN game' = [game EXCEPT !.die = Some(r.die), !.result = "BrokenDie"]
              ELSE LET index == (game.round % Len(game.players)) + 1
                       field == ((game.players[index].field + Unwrap(r.sum) - 1)
                                    % BoardSize) + 1
                       score == game.players[index].score + field
                   IN  game' = [game EXCEPT
                            !.players[index] = [score |-> score, field |-> field],
                            !.round = game.round + 1,
                            !.die = IF score > game.max THEN None ELSE Some(r.die),
                            !.result = "Ok"]
    /\ UNCHANGED <<walks, input, scans, core, scanners, done, pc, i, pass, report>>
    /\ UNCHANGED <<rot, parser, fish>>

\* DiracGame::play_round; result is what the call returns
PlayRound ==
    /\ pc = "game"
    /\ IF ~IsSome(game.die)
       THEN game' = [game EXCEPT !.result = "GameEnded"]
       ELSE \E r \in {TakeExactlySum(Unwrap(game.die), RollsPerRound, 0)} :
              IF ~IsSome(r.sum)
              THEN game' = [game EXCEPT !.die = Some(r.die), !.result = "BrokenDie"]
              ELSE LET index == (game.round % Len(game.players)) + 1
                       field == ((game.players[index].field + Unwrap(r.sum) - 1)
                                    % BoardSize) + 1
                       score == game.players[index].score + field
                   IN  game' = [game EXCEPT
                            !.players[index] = [score |-> score, field |-> field],
                            !.round = game.round + 1,
                            !.die = IF score >= game.max THEN None ELSE Some(r.die),
                            !.result = "Ok"]
    /\ UNCHANGED <<walks, input, scans, core, scanners, done, pc, i, pass, report>>
    /\ UNCHANGED <<rot, parser, fish>>

NextGame == PlayRound

SpecGame == InitGame /\ [][NextGame]_vars

(***************************************************************************)
(* 2021 day 18: snailfish numbers.  An Edge is a one-element tuple         *)
(* (Edge::Leaf) or a pair of edges (Edge::Pair of a Node with its west and *)
(* east edge).                                                             *)
(***************************************************************************)
Leaf(n) == <<n>>

Pair(west, east) == <<west, east>>

IsLeaf(edge) == Len(edge) = 1

\* Direction::reverse
ReverseDirection(whence) == IF whence = "East" THEN "West" ELSE "East"

\* the place of an edge in its node
SideOf(whence) == IF whence = "West" THEN 1 ELSE 2

\* ShockWave
NoWave == [kind |-> "None", x |-> 0, y |-> 0]
Caught == [kind |-> "Caught", x |-> 0, y |-> 0]
Full(x, y) == [kind |-> "Full", x |-> x, y |-> y]
WestWave(x) == [kind |-> "West", x |-> x, y |-> 0]
EastWave(y) == [kind |-> "East", x |-> 0, y |-> y]

\* Node::distribute; the node after the call
RECURSIVE Distribute(_, _, _, _)
Distribute(node, whence, value, curve) ==
    IF IsLeaf(node[SideOf(whence)])
    THEN [node EXCEPT ![SideOf(whence)] = Leaf(node[SideOf(whence)][1] + value)]
    ELSE [node EXCEPT ![SideOf(whence)] =
            Distribute(node[SideOf(whence)],
                       IF curve THEN ReverseDirection(whence) ELSE whence,
                       value, FALSE)]

\* Node::explode, lines 188-209: the wave has come back from origin
Settle(node, origin, shockwave) ==
    LET zeroed == IF shockwave.kind = "Full"
                  THEN [node EXCEPT ![SideOf(origin)] = Leaf(0)]
                  ELSE node
    IN  CASE shockwave.kind = "Full" ->
                IF origin = "East"
                THEN [wave |-> EastWave(shockwave.y),
                      node |-> Distribute(zeroed, "West", shockwave.x, TRUE)]
                ELSE [wave |-> WestWave(shockwave.x),
                      node |-> Distribute(zeroed, "East", shockwave.y, TRUE)]
          [] shockwave.kind = "West" ->
                IF origin = "West"
                THEN [wave |-> shockwave, node |-> zeroed]
                ELSE [wave |-> Caught,
                      node |-> Distribute(zeroed, "West", shockwave.x, TRUE)]
          [] shockwave.kind = "East" ->
                IF origin = "East"
                THEN [wave |-> shockwave, node |-> zeroed]
                ELSE [wave |-> Caught,
                      node |-> Distribute(zeroed, "East", shockwave.y, TRUE)]
          [] OTHER -> [wave |-> shockwave, node |-> zeroed]

\* Node::explode: the wave returned and the node after the call
RECURSIVE Explode(_, _)
Explode(node, depth) ==
    IF IsLeaf(node[1]) /\ IsLeaf(node[2]) /\ depth >= 4
    THEN [wave |-> Full(node[1][1], node[2][1]), node |-> node]
    ELSE CHOOSE r \in
            {IF w.wave = NoWave /\ ~IsLeaf(node[2])
             THEN CHOOSE q \in {Settle(Pair(w.node, e.node), "East", e.wave)
                                  : e \in {Explode(node[2], depth + 1)}} : TRUE
             ELSE Settle(Pair(w.node, node[2]), "West", w.wave)
                : w \in {IF IsLeaf(node[1])
                         THEN [wave |-> NoWave, node |-> node[1]]
                         ELSE Explode(node[1], depth + 1)}} : TRUE

\* mutant: both halves are rounded down
SplitValueFloors(value) == Pair(Leaf(value \div 2), Leaf(value \div 2))

\* the closure split of lines 135-138
SplitValue(value) == Pair(Leaf(value \div 2), Leaf((value \div 2) + (value % 2)))

\* Node::split: whether a number was split, and the node after the call
RECURSIVE Split(_)
Split(node) ==
    CHOOSE r \in
        {IF w.split
         THEN [split |-> TRUE, node |-> Pair(w.node, node[2])]
         ELSE CHOOSE q \in {[split |-> e.split, node |-> Pair(node[1], e.node)]
                  : e \in {IF IsLeaf(node[2])
                           THEN IF node[2][1] > 9
                                THEN [split |-> TRUE, node |-> SplitValue(node[2][1])]
                                ELSE [split |-> FALSE, node |-> node[2]]
                           ELSE Split(node[2])}} : TRUE
            : w \in {IF IsLeaf(node[1])
                     THEN IF node[1][1] > 9
                          THEN [split |-> TRUE, node |-> SplitValue(node[1][1])]
                          ELSE [split |-> FALSE, node |-> node[1]]
                     ELSE Split(node[1])}} : TRUE

\* the numbers of test_simple_sums, lines 349, 354, 359
SimpleList(n) == [k \in 1..n |-> Pair(Leaf(k), Leaf(k))]

\* the numbers of test_slightly_larger, lines 379-388
SlightlyLarger ==
    << Pair(Pair(Pair(Leaf(0), Pair(Leaf(4), Leaf(5))), Pair(Leaf(0),
         Leaf(0))), Pair(Pair(Pair(Leaf(4), Leaf(5)), Pair(Leaf(2),
         Leaf(6))), Pair(Leaf(9), Leaf(5)))),
       Pair(Leaf(7), Pair(Pair(Pair(Leaf(3), Leaf(7)), Pair(Leaf(4),
         Leaf(3))), Pair(Pair(Leaf(6), Leaf(3)), Pair(Leaf(8),
         Leaf(8))))),
       Pair(Pair(Leaf(2), Pair(Pair(Leaf(0), Leaf(8)), Pair(Leaf(3),
         Leaf(4)))), Pair(Pair(Pair(Leaf(6), Leaf(7)), Leaf(1)),
         Pair(Leaf(7), Pair(Leaf(1), Leaf(6))))),
       Pair(Pair(Pair(Pair(Leaf(2), Leaf(4)), Leaf(7)), Pair(Leaf(6),
         Pair(Leaf(0), Leaf(5)))), Pair(Pair(Pair(Leaf(6), Leaf(8)),
         Pair(Leaf(2), Leaf(8))), Pair(Pair(Leaf(2), Leaf(1)),
         Pair(Leaf(4), Leaf(5))))),
       Pair(Leaf(7), Pair(Leaf(5), Pair(Pair(Leaf(3), Leaf(8)),
         Pair(Leaf(1), Leaf(4))))),
       Pair(Pair(Leaf(2), Pair(Leaf(2), Leaf(2))), Pair(Leaf(8),
         Pair(Leaf(8), Leaf(1)))),
       Pair(Leaf(2), Leaf(9)),
       Pair(Leaf(1), Pair(Pair(Pair(Leaf(9), Leaf(3)), Leaf(9)),
         Pair(Pair(Leaf(9), Leaf(0)), Pair(Leaf(0), Leaf(7))))),
       Pair(Pair(Pair(Leaf(5), Pair(Leaf(7), Leaf(4))), Leaf(7)),
         Leaf(1)),
       Pair(Pair(Pair(Pair(Leaf(4), Leaf(2)), Leaf(2)), Leaf(6)),
         Pair(Leaf(8), Leaf(7))) >>

MaxLeaf == 12

Leaves == {Leaf(0), Leaf(7), Leaf(MaxLeaf)}

\* numbers with a pair of two leaves at every depth from 0 to 4
Numbers ==
    UNION {{Pair(x, y),
            Pair(Pair(Pair(Pair(x, y), Leaf(1)), Leaf(2)), Leaf(3)),
            Pair(Leaf(1), Pair(Leaf(2), Pair(Leaf(3), Pair(x, y)))),
            Pair(Pair(Leaf(1), Pair(x, y)), Pair(Pair(y, x), Leaf(1))),
            Pair(Pair(Pair(Pair(Pair(x, y), Leaf(1)), Leaf(2)), Leaf(3)), Leaf(4))}
                : x \in Leaves, y \in Leaves}

\* the numbers of test_magnitude, lines 367 and 368
MagnitudeSmall == Pair(Pair(Leaf(1), Leaf(2)), Pair(Pair(Leaf(3), Leaf(4)), Leaf(5)))

MagnitudeLarge ==
    Pair(Pair(Pair(Pair(Leaf(0), Leaf(7)), Leaf(4)),
              Pair(Pair(Leaf(7), Leaf(8)), Pair(Leaf(6), Leaf(0)))),
         Pair(Leaf(8), Leaf(1)))

NumberLists ==
    {SimpleList(4), SimpleList(5), SimpleList(6), SlightlyLarger, <<>>,
     <<MagnitudeSmall>>, <<MagnitudeLarge>>}
        \cup {<<a, b>> : a \in Numbers, b \in Numbers}

InitFish ==
    /\ walks = <<>>
    /\ input = <<>>
    /\ scans = <<>>
    /\ core = None
    /\ scanners = <<>>
    /\ done = FALSE
    /\ pc = "node_sum"
    /\ i = 0
    /\ pass = 0
    /\ report = None
    /\ rot = None
    /\ parser = None
    /\ game = None
    /\ \E numbers \in NumberLists :
          fish = [numbers |-> numbers, next |-> 1, total |-> None, result |-> None,
                  magnitude |-> None]

\* node_sum, line 322: the first number is the total, or InputIsEmpty
SumFirst ==
    /\ pc = "node_sum"
    /\ IF fish.numbers = <<>>
       THEN /\ fish' = [fish EXCEPT !.result = Some("InputIsEmpty")]
            /\ pc' = "sum_done"
       ELSE /\ fish' = [fish EXCEPT !.total = Some(fish.numbers[1]), !.next = 2]
            /\ pc' = "for_node"
    /\ UNCHANGED <<walks, input, scans, core, scanners, done, i, pass, report>>
    /\ UNCHANGED <<rot, parser, game>>

\* line 323 and Add::add (235): the pair of the total and the next number
AddNode ==
    /\ pc = "for_node"
    /\ fish.next <= Len(fish.numbers)
    /\ fish' = [fish EXCEPT
            !.total = Some(Pair(Unwrap(fish.total), fish.numbers[fish.next])),
            !.next = fish.next + 1]
    /\ pc' = "reduce"
    /\ UNCHANGED <<walks, input, scans, core, scanners, done, i, pass, report>>
    /\ UNCHANGED <<rot, parser, game>>

\* Node::reduce, one test of the while loop: explode(0), and split() when
\* nothing exploded; the loop ends when neither did anything
ReduceStep ==
    /\ pc = "reduce"
    /\ \E x \in {Explode(Unwrap(fish.total), 0)} :
          IF x.wave # NoWave
          THEN /\ fish' = [fish EXCEPT !.total = Some(x.node)]
               /\ pc' = "reduce"
          ELSE \E s \in {Split(x.node)} :
                 /\ fish' = [fish EXCEPT !.total = Some(s.node)]
                 /\ pc' = IF s.split THEN "reduce" ELSE "for_node"
    /\ UNCHANGED <<walks, input, scans, core, scanners, done, i, pass, report>>
    /\ UNCHANGED <<rot, parser, game>>

\* line 324: Ok(total)
SumEnd ==
    /\ pc = "for_node"
    /\ fish.next > Len(fish.numbers)
    /\ fish' = [fish EXCEPT !.result = Some("Ok")]
    /\ pc' = "sum_done"
    /\ UNCHANGED <<walks, input, scans, core, scanners, done, i, pass, report>>
    /\ UNCHANGED <<rot, parser, game>>

\* mutant: the factors of west and east are exchanged
RECURSIVE MagnitudeSwapped(_)
MagnitudeSwapped(node) ==
    LET a == IF IsLeaf(node[1]) THEN node[1][1] ELSE MagnitudeSwapped(node[1])
        b == IF IsLeaf(node[2]) THEN node[2][1] ELSE MagnitudeSwapped(node[2])
    IN  2 * a + 3 * b

\* Node::magnitude
RECURSIVE Magnitude(_)
Magnitude(node) ==
    LET a == IF IsLeaf(node[1]) THEN node[1][1] ELSE Magnitude(node[1])
        b == IF IsLeaf(node[2]) THEN node[2][1] ELSE Magnitude(node[2])
    IN  3 * a + 2 * b

\* the magnitude of the sum is taken (lines 367-372, 418)
TakeMagnitude ==
    /\ pc = "sum_done"
    /\ fish.result = Some("Ok")
    /\ fish' = [fish EXCEPT !.magnitude = Some(Magnitude(Unwrap(fish.total)))]
    /\ pc' = "magnitude"
    /\ UNCHANGED <<walks, input, scans, core, scanners, done, i, pass, report>>
    /\ UNCHANGED <<rot, parser, game>>

NextFish == SumFirst \/ AddNode \/ ReduceStep \/ SumEnd \/ TakeMagnitude

SpecFish == InitFish /\ [][NextFish]_vars

(***************************************************************************)
(* Properties                                                              *)
(***************************************************************************)
Resolved == {k \in 1..Len(scans) : IsSome(scans[k].transformation)}

Finished == pc \in {"done", "EmptyInput"}

Transpose(m) ==
    << <<m[1][1], m[2][1], m[3][1]>>,
       <<m[1][2], m[2][2], m[3][2]>>,
       <<m[1][3], m[2][3], m[3][3]>> >>

Det(m) ==
      m[1][1] * (m[2][2] * m[3][3] - m[2][3] * m[3][2])
    - m[1][2] * (m[2][1] * m[3][3] - m[2][3] * m[3][1])
    + m[1][3] * (m[2][1] * m[3][2] - m[2][2] * m[3][1])

\* a proper rotation of the integer lattice: orthogonal, determinant 1
IsLatticeRotation(m) == MulMM(m, Transpose(m)) = Default /\ Det(m) = 1

\* the points of ref that are R*p + t for a point p of cand
Coincidences(ref, cand, tr) ==
    {q \in ref : \E p \in cand : q = VAdd(MulMV(tr[1], p), tr[2])}

\* C1: the registration loop reaches Done on every input, also on one that
\* holds a cloud that can never be aligned (a stall ends the loop).
LoopTerminates == <>Finished

\* C2: align returns Some(Transformation(R, t)) only if R is one of the 24
\* rotations and at least 12 distinct points of the reference, as it was
\* before the call, are R*p + t for a candidate point p; the reference changes
\* only in a call that returns Some.
AlignOnlyOnOverlap ==
    [][pc = "align" =>
         /\ (Unwrap(core') # Unwrap(core) \/ scanners' # scanners)
               => IsSome(scans'[i].transformation)
         /\ IsSome(scans'[i].transformation) =>
               LET tr == Unwrap(scans'[i].transformation)
               IN  /\ IsLatticeRotation(tr[1])
                   /\ Cardinality(Coincidences(Unwrap(core).blips,
                                               scans[i].blips, tr)) >= 12
                   /\ scanners' = Append(scanners, tr[2])]_vars

\* an align call has returned Some for a candidate that holds points of its own
AlignedWithExtras ==
    /\ pc = "for"
    /\ \E k \in Resolved :
          LET tr == Unwrap(scans[k].transformation)
          IN  /\ k + 1 = i
              /\ Cardinality(scans[k].blips) > 12
              /\ Cardinality(Coincidences(input[1], scans[k].blips, tr)) = 12

\* the translations t under which at least 12 of the rotated candidate points
\* rc land on points of ref (x -> x + t is one to one)
Translations(ref, rc) ==
    {t \in {VSub(q, x) : q \in ref, x \in rc} :
        Cardinality({x \in rc : VAdd(x, t) \in ref}) >= 12}

\* every pose (R, t), R a running product of the walk, under which at least
\* 12 points of cand are mapped onto points of ref
OverlapPoses(ref, cand) ==
    UNION {UNION {{<<Products[k], t>> : t \in Translations(ref, rc)}
                    : rc \in {{MulMV(Products[k], p) : p \in cand}}}
            : k \in 1..Len(Products)}

\* C3 as claimed: whenever at least 12 candidate points are mapped onto
\* reference points by a pose (R, t), align succeeds and returns exactly that
\* R and t.
AlignRecoversThePose ==
    pc = "align" =>
        \A poses \in {OverlapPoses(Unwrap(core).blips, scans[i].blips)} :
            \A tr \in poses : AlignResults(Unwrap(core), scans[i]) = {tr}

\* C3 as amended: whenever at least 12 candidate points are mapped onto
\* reference points by some pose, align succeeds and returns a pose that maps
\* at least 12 candidate points onto reference points; it returns exactly
\* (R, t) when (R, t) is the only such pose.
AlignRecoversAPose ==
    pc = "align" =>
        \A poses \in {OverlapPoses(Unwrap(core).blips, scans[i].blips)} :
            \A res \in {AlignResults(Unwrap(core), scans[i])} :
                /\ poses # {} => res # {} /\ res \subseteq poses
                /\ \A tr \in poses : poses = {tr} => res = {tr}

\* align is called on a candidate that holds 12 images of reference points
\* under exactly one pose, and points of its own besides
UniquePoseWithExtras ==
    /\ pc = "align"
    /\ Cardinality(scans[i].blips) > 12
    /\ Cardinality(OverlapPoses(Unwrap(core).blips, scans[i].blips)) = 1

InLoop == pc \in {"while", "for", "align", "done"}

\* the images R*p + t of the points of a resolved scan
ImageOf(scan) ==
    {VAdd(MulMV(Unwrap(scan.transformation)[1], p), Unwrap(scan.transformation)[2])
        : p \in scan.blips}

\* C4: at every point of the registration loop the reference's point set is
\* the union of the first cloud's points and the images of all points of every
\* resolved cloud; pending clouds have contributed no point.
ReferenceIsUnionOfResolved ==
    InLoop =>
        Unwrap(core).blips = input[1] \cup UNION {ImageOf(scans[k]) : k \in Resolved}

\* a stall: a pass ends with one cloud merged and another one still pending
StalledWithPartialMerge ==
    /\ pc = "while"
    /\ pass >= 2
    /\ Resolved # {}
    /\ Resolved # 1..Len(scans)
    /\ \A k \in 1..Len(scans) :
          k \notin Resolved => AlignResults(Unwrap(core), scans[k]) = {}

\* C5: a cloud is merged exactly once: a scan that has a transformation is
\* never passed to align again, its transformation never changes, and the
\* list of positions holds one entry for it.
MergedExactlyOnce ==
    /\ [](pc = "align" => ~IsSome(scans[i].transformation))
    /\ [](InLoop => Len(scanners) = 1 + Cardinality(Resolved))
    /\ [][\A k \in 1..Len(scans) :
            (pc # "start" /\ IsSome(scans[k].transformation)) => scans'[k] = scans[k]]_vars

\* a later pass steps over a cloud that an earlier pass has merged
ResolvedIsSkipped ==
    /\ pc = "for"
    /\ pass >= 2
    /\ i \in Resolved

\* C6: the reference's point set only grows: every point that is in it before
\* a step is in it after the step.
ReferenceOnlyGrows ==
    [][IsSome(core) => IsSome(core') /\ Unwrap(core).blips \subseteq Unwrap(core').blips]_vars

\* a merge has added points, and a later align call has failed
GrownThenFailed ==
    /\ pc = "for"
    /\ IsSome(core)
    /\ Cardinality(Unwrap(core).blips) > Cardinality(input[1])
    /\ i - 1 \in 1..Len(scans)
    /\ i - 1 \notin Resolved

\* the index reflects the points exactly
IndexConsistent(s) ==
    /\ \A v \in s.blips : \A w \in s.blips :
          v # w => /\ VAbs(VSub(w, v)) \in DOMAIN s.edges
                   /\ <<v, w>> \in s.edges[VAbs(VSub(w, v))]
    /\ \A d \in DOMAIN s.edges : \A e \in s.edges[d] :
          /\ e[1] \in s.blips
          /\ e[2] \in s.blips
          /\ e[1] # e[2]
          /\ VAbs(VSub(e[2], e[1])) = d

\* C7: after Scan::from and after every merge the edges index holds, for every
\* ordered pair of distinct points, the pair in the class of its Manhattan
\* distance, and nothing else.
IndexIsConsistent ==
    /\ \A k \in 1..Len(scans) : IndexConsistent(scans[k])
    /\ IsSome(core) => IndexConsistent(Unwrap(core))

\* two merges have refreshed the reference's index, which Scan::from had filled
IndexRefreshedTwice ==
    /\ IsSome(core)
    /\ Cardinality(Resolved) >= 2
    /\ Cardinality(Unwrap(core).blips) >= Cardinality(input[1]) + 12

\* the input of three clouds: the second shares 12 points with the first, the
\* third shares points with the second only
IsChain ==
    /\ Len(input) = 3
    /\ input[2] = CloudA \cup CloudB
    /\ input[3] = CloudC

\* the place in scans of the k-th cloud of the input
PlaceOf(k) == CHOOSE j \in 1..Len(scans) : scans[j].blips = input[k]

\* the pass has gone past place j
Past(j) == (pc = "for" /\ i > j) \/ pc = "while"

\* C8: pending clouds whose alignment failed are attempted again on the next
\* pass: with the three-cloud input the third cloud is still pending throughout
\* pass 1, in which the second is merged, and is merged by its attempt of
\* pass 2; a pass that leaves a cloud pending is followed by another pass.
FailedIsRetriedNextPass ==
    /\ (InLoop /\ pc = "while" /\ pass >= 1 /\ Resolved # 1..Len(scans)) => ~done
    /\ (IsChain /\ InLoop) =>
          /\ pass <= 1 => PlaceOf(3) \notin Resolved
          /\ (pass = 1 /\ Past(PlaceOf(2))) => PlaceOf(2) \in Resolved
          /\ (pass = 2 /\ Past(PlaceOf(3))) => PlaceOf(3) \in Resolved

\* pass 2 has merged the third cloud, after the second
ThirdMergedInPassTwo ==
    /\ IsChain
    /\ pc = "for"
    /\ pass = 2
    /\ i = PlaceOf(3) + 1
    /\ Len(scanners) = 3
    /\ scanners[3] = Unwrap(scans[PlaceOf(3)].transformation)[2]

\* C9: when the loop has ended, every cloud of the input but the first has a
\* transformation and all of its mapped points are in the reference; a pass in
\* which a cloud was aligned is never the last one (done is false from the
\* attempt to the next loop test).
LoopEndsWithAllResolved ==
    /\ [](pc = "done" =>
            /\ Len(scans) = Len(input) - 1
            /\ \A k \in 1..Len(scans) :
                  /\ scans[k].blips = input[Len(input) + 1 - k]
                  /\ k \in Resolved
                  /\ ImageOf(scans[k]) \subseteq Unwrap(core).blips)
    /\ [][(pc = "align" /\ scanners' # scanners) => ~done']_vars
    /\ [][(~done /\ done') => (pc = "while" /\ pc' = "for")]_vars

\* the loop has ended after three passes over two clouds
EndedAfterThreePasses ==
    /\ pc = "done"
    /\ Len(scans) = 2
    /\ pass = 3

RotationCount == 24

\* C10: every walk yields exactly 24 steps and then None; the running products
\* are pairwise distinct, the identity is one of them, and two independent
\* walks yield the same steps.
WalkYields24Rotations ==
    \A w \in 1..NumWalkers :
        /\ Len(walks[w].out) <= RotationCount
        /\ IsSome(WalkNext(walks[w].walk).item) <=> Len(walks[w].out) < RotationCount
        /\ walks[w].ended => Len(walks[w].out) = RotationCount
        /\ Cardinality(walks[w].h) = Len(walks[w].out)
        /\ Len(walks[w].out) = RotationCount => Default \in walks[w].h
        /\ \A v \in 1..NumWalkers : \A k \in 1..Len(walks[w].out) :
              k <= Len(walks[v].out) => walks[v].out[k] = walks[w].out[k]

\* every walker has been through its walk and has seen None
AllWalksEnded ==
    /\ pc = "test"
    /\ \A w \in 1..NumWalkers : walks[w].ended /\ Cardinality(walks[w].h) = RotationCount

\* C11: the 24 running products of the walk are a group: the product of any
\* two of them is one of them, the transpose of each is one of them, and each
\* times its transpose is the identity.
WalkProductsAreAGroup ==
    \A w \in 1..NumWalkers :
        walks[w].ended =>
            \A a \in walks[w].h :
                /\ Transpose(a) \in walks[w].h
                /\ MulMM(a, Transpose(a)) = Default
                /\ \A b \in walks[w].h : MulMM(a, b) \in walks[w].h

\* a walk has ended with 24 products, two of which do not commute
GroupIsComplete ==
    /\ pc = "test"
    /\ walks[1].ended
    /\ Cardinality(walks[1].h) = RotationCount
    /\ \E a \in walks[1].h : \E b \in walks[1].h : MulMM(a, b) # MulMM(b, a)

DistSq(a, b) ==
    (a[1] - b[1]) * (a[1] - b[1]) + (a[2] - b[2]) * (a[2] - b[2])
        + (a[3] - b[3]) * (a[3] - b[3])

\* C12: every product of the walk, applied to two points, keeps their squared
\* Euclidean distance.
RotationKeepsDistance ==
    (pc = "rotate" /\ rot.k > 0) => DistSq(rot.rp, rot.rq) = DistSq(rot.p, rot.q)

\* the last product has been applied to two distinct points and moved both
AllProductsApplied ==
    /\ pc = "rotate"
    /\ rot.k = RotationCount
    /\ rot.p # rot.q
    /\ rot.rp # rot.p
    /\ rot.rq # rot.q

\* C13: merging is idempotent: inserting into the reference points that it
\* already holds (all of its own, or the image of a cloud merged before) and
\* refreshing the index leaves its points and its index as they were.
MergeIsIdempotent ==
    IsSome(core) =>
        \A again \in {Unwrap(core).blips} \cup {ImageOf(scans[k]) : k \in Resolved} :
            /\ again \subseteq Unwrap(core).blips
            /\ Merge(Unwrap(core), again) = Unwrap(core)

\* two clouds are merged, and the image of one is a part of the reference only
RemergeOfAPart ==
    /\ IsSome(core)
    /\ Cardinality(Resolved) >= 2
    /\ \E k \in Resolved : ImageOf(scans[k]) # Unwrap(core).blips


\* C14: the scanners list is the origin followed by one translation for every
\* resolved cloud, in the order in which the clouds were resolved; the reported
\* maximum distance is the largest Manhattan distance between two entries of
\* the list (0 when the origin is its only entry).
ScannersListAndMaxDistance ==
    /\ [](pc # "start" =>
            /\ Len(scanners) = 1 + Cardinality(Resolved)
            /\ scanners[1] = Origin)
    /\ [][pc # "start" =>
            \/ /\ Resolved' = Resolved
               /\ scanners' = scanners
            \/ \E k \in 1..Len(scans) :
                  /\ k \notin Resolved
                  /\ Resolved' = Resolved \cup {k}
                  /\ scanners' = Append(scanners, Unwrap(scans'[k].transformation)[2])]_vars
    /\ [](pc = "done" =>
            /\ \A a \in 1..Len(scanners) : \A b \in 1..Len(scanners) :
                  VAbs(VSub(scanners[b], scanners[a])) <= Unwrap(report)[2]
            /\ \E a \in 1..Len(scanners) : \E b \in 1..Len(scanners) :
                  VAbs(VSub(scanners[b], scanners[a])) = Unwrap(report)[2]
            /\ Len(scanners) = 1 => Unwrap(report)[2] = 0)

\* the result is printed for three scanners, the two farthest apart of which
\* are not the first
FarthestAreNotTheFirst ==
    /\ pc = "done"
    /\ Len(scanners) = 3
    /\ Unwrap(report)[2] = VAbs(VSub(scanners[3], scanners[2]))
    /\ Unwrap(report)[2] > VAbs(scanners[2])
    /\ Unwrap(report)[2] > VAbs(scanners[3])

\* C15: the first cloud of the input, not the last, becomes the initial
\* reference; all of its points are in the reference, unchanged, at every
\* moment; it is not among the scans of the loop, so no alignment is ever
\* attempted for it.
FirstCloudIsTheReference ==
    /\ [][(pc = "start" /\ input # <<>>) =>
            /\ core' = Some(ScanFrom(input[1]))
            /\ pc' = "while"]_vars
    /\ [](InLoop =>
            /\ input[1] \subseteq Unwrap(core).blips
            /\ Len(scans) = Len(input) - 1
            /\ \A k \in 1..Len(scans) : scans[k].blips = input[Len(input) + 1 - k])
    /\ [](pc = "align" =>
            /\ i \in 1..(Len(input) - 1)
            /\ scans[i].blips = input[Len(input) + 1 - i])

\* the last cloud of three, which is not the first, is about to be aligned
LastCloudIsACandidate ==
    /\ pc = "align"
    /\ Len(input) = 3
    /\ i = 1
    /\ scans[i].blips = input[3]
    /\ input[3] # input[1]
    /\ Unwrap(core).blips = input[1]

\* a line that is neither blank nor a header: a coordinate record
IsRecord(l) == ~IsEmptyLine(l) /\ ~IsHeaderLine(l)

\* the records that parse has read
RecordsRead ==
    {k \in 1..Len(parser.lines) : k < parser.pos /\ IsRecord(parser.lines[k])}

\* C16: when the file holds no point line (it is empty, or holds only blank
\* and header lines) Scan::parse yields no cloud, and main_or_error then
\* returns EmptyInput at the pop: the loop is not entered, nothing is printed,
\* and nothing follows.
EmptyInputIsAnError ==
    /\ [](pc = "start" => (scans = <<>> <=> RecordsRead = {}))
    /\ [][(pc = "start" /\ scans = <<>>) =>
            /\ pc' = "EmptyInput"
            /\ report' = None
            /\ core' = None]_vars
    /\ [](pc = "EmptyInput" => scans = <<>> /\ RecordsRead = {} /\ report = None)
    /\ [][pc # "EmptyInput"]_vars

\* EmptyInput was returned for a file of header and blank lines
OnlyHeadersAndBlanks ==
    /\ pc = "EmptyInput"
    /\ \E k \in 1..Len(parser.lines) : IsHeaderLine(parser.lines[k])
    /\ \E k \in 1..Len(parser.lines) : IsEmptyLine(parser.lines[k])

\* exactly three comma-separated integers
IsTriplet(l) == Len(l) = 3 /\ \A k \in 1..3 : IsSome(ParseInt(l[k]))

\* C17: a coordinate record that is not exactly three comma-separated integers
\* is returned by Scan::parse as an error value: the process does not abort on
\* it, and parse never reads past it, so it never becomes a point.
NonTripletIsAnErrorValue ==
    /\ pc # "Panicked"
    /\ \A k \in RecordsRead : IsTriplet(parser.lines[k])

\* C18: a call of align that returns None (the caller pushes no position)
\* changes neither the reference nor the candidate, whose transformation is
\* still None; every call leaves the candidate's points and index, and every
\* other scan, as they were: a successful call sets the transformation only.
FailedAlignHasNoEffect ==
    [][pc = "align" =>
        /\ scanners' = scanners =>
              /\ core' = core
              /\ scans' = scans
              /\ scans'[i].transformation = None
        /\ scans'[i].blips = scans[i].blips
        /\ scans'[i].edges = scans[i].edges
        /\ Len(scans') = Len(scans)
        /\ \A k \in 1..Len(scans) : k # i => scans'[k] = scans[k]
        /\ scanners' # scanners =>
              /\ scans[i].transformation = None
              /\ IsSome(scans'[i].transformation)]_vars

\* in one pass over two clouds one call has failed and one has succeeded
OneFailedOneSucceeded ==
    /\ pc = "for"
    /\ pass = 1
    /\ Len(scans) = 2
    /\ i = 3
    /\ Cardinality(Resolved) = 1

ExampleRounds == 331

ExampleLoserScore == 745

\* the game that began as the example of the test
IsExample ==
    /\ pc = "game"
    /\ game.max = ExampleMax
    /\ Len(game.players) = 2

\* the player who moved in the last round played (1-based)
LastMover == ((game.round - 1) % Len(game.players)) + 1

\* C19: a round moves the player whose number is round mod the number of
\* players by the sum of three consecutive die values around the board of 10
\* fields and adds the field reached to that player's score; the game has
\* ended exactly when the player who moved last has score >= max, and no
\* player has reached max while it has not ended.  The example (fields 4 and
\* 8, die 1,2,3,..., max 1000) ends in round 331 with the other player at 745.
GameEndsAtFirstWinningRound ==
    /\ [](pc = "game" =>
            /\ HasEnded(game) <=>
                  /\ game.round >= 1
                  /\ game.players[LastMover].score >= game.max
            /\ ~HasEnded(game) =>
                  \A k \in 1..Len(game.players) : game.players[k].score < game.max)
    /\ [][(pc = "game" /\ game'.round # game.round) =>
            LET k == (game.round % Len(game.players)) + 1
                d == Unwrap(game.die).next
                to == ((game.players[k].field + d + (d + 1) + (d + 2) - 1) % 10) + 1
            IN  /\ ~HasEnded(game)
                /\ game'.round = game.round + 1
                /\ game'.players[k].field = to
                /\ game'.players[k].score = game.players[k].score + to
                /\ \A j \in 1..Len(game.players) :
                      j # k => game'.players[j] = game.players[j]
                /\ HasEnded(game') <=> game'.players[k].score >= game.max]_vars
    /\ [](IsExample =>
            /\ game.round <= ExampleRounds
            /\ HasEnded(game) <=> game.round = ExampleRounds
            /\ HasEnded(game) =>
                  /\ game.players[1].score >= ExampleMax
                  /\ game.players[2].score = ExampleLoserScore)

\* the example has ended
ExampleHasEnded ==
    /\ IsExample
    /\ HasEnded(game)
    /\ game.round = ExampleRounds
    /\ game.result = "Ok"

\* line 392
SlightlyLargerGoal ==
    Pair(Pair(Pair(Pair(Leaf(8), Leaf(7)), Pair(Leaf(7), Leaf(7))),
      Pair(Pair(Leaf(8), Leaf(6)), Pair(Leaf(7), Leaf(7)))),
      Pair(Pair(Pair(Leaf(0), Leaf(7)), Pair(Leaf(6), Leaf(6))),
      Pair(Leaf(8), Leaf(7))))

\* line 351
SimpleGoal4 ==
    Pair(Pair(Pair(Pair(Leaf(1), Leaf(1)), Pair(Leaf(2), Leaf(2))),
      Pair(Leaf(3), Leaf(3))), Pair(Leaf(4), Leaf(4)))

\* line 356
SimpleGoal5 ==
    Pair(Pair(Pair(Pair(Leaf(3), Leaf(0)), Pair(Leaf(5), Leaf(3))),
      Pair(Leaf(4), Leaf(4))), Pair(Leaf(5), Leaf(5)))

\* line 361
SimpleGoal6 ==
    Pair(Pair(Pair(Pair(Leaf(5), Leaf(0)), Pair(Leaf(7), Leaf(4))),
      Pair(Leaf(5), Leaf(5))), Pair(Leaf(6), Leaf(6)))


\* the regular numbers of an edge from west to east, each with the number of
\* pairs it is nested in
RECURSIVE Flat(_, _)
Flat(edge, depth) ==
    IF IsLeaf(edge)
    THEN <<[v |-> edge[1], d |-> depth]>>
    ELSE Flat(edge[1], depth + 1) \o Flat(edge[2], depth + 1)

\* the places of the leftmost pair of two regular numbers inside four pairs:
\* the first two neighbours that are nested equally, in more than four pairs
ExplodePlaces(f) ==
    {k \in 1..(Len(f) - 1) : f[k].d > 4 /\ f[k + 1].d = f[k].d}

SplitPlaces(f) == {k \in 1..Len(f) : f[k].v > 9}

Leftmost(places) == CHOOSE k \in places : \A j \in places : k <= j

\* the pair at k, k + 1 is replaced by 0, its numbers go to the neighbours
FlatExplode(f) ==
    LET k == Leftmost(ExplodePlaces(f))
        before == [j \in 1..(k - 1) |->
                     IF j = k - 1 THEN [f[j] EXCEPT !.v = f[j].v + f[k].v] ELSE f[j]]
        after == [j \in 1..(Len(f) - k - 1) |->
                     IF j = 1 THEN [f[k + 2] EXCEPT !.v = f[k + 2].v + f[k + 1].v]
                     ELSE f[k + 1 + j]]
    IN  before \o <<[v |-> 0, d |-> f[k].d - 1]>> \o after

\* the number at k is replaced by the pair of its halves, rounded down and up
FlatSplit(f) ==
    LET k == Leftmost(SplitPlaces(f))
        lo == CHOOSE n \in 0..f[k].v : 2 * n <= f[k].v /\ f[k].v < 2 * n + 2
    IN  SubSeq(f, 1, k - 1)
            \o <<[v |-> lo, d |-> f[k].d + 1], [v |-> f[k].v - lo, d |-> f[k].d + 1]>>
            \o SubSeq(f, k + 1, Len(f))

TotalFlat == Flat(Unwrap(fish.total), 0)

IsReduced(f) == ExplodePlaces(f) = {} /\ SplitPlaces(f) = {} /\ \A k \in 1..Len(f) : f[k].d <= 4

\* C20: the sum of two snailfish numbers is the reduction of the pair of the
\* two: as long as one applies, the leftmost pair of two regular numbers inside
\* four pairs explodes (its numbers are added to the neighbours on the left
\* and on the right, it becomes 0), otherwise the leftmost regular number above
\* 9 is split into its halves, rounded down and up; the result has no pair
\* inside four pairs and no regular number above 9.  The sums of the tests are
\* the numbers the tests expect.
SumIsReductionOfThePair ==
    /\ [][(pc = "for_node" /\ pc' = "reduce") =>
            /\ fish'.total = Some(<<Unwrap(fish.total), fish.numbers[fish.next]>>)
            /\ fish'.next = fish.next + 1]_vars
    /\ [][pc = "reduce" =>
            \E f \in {TotalFlat} :
               IF ExplodePlaces(f) # {}
               THEN Flat(Unwrap(fish'.total), 0) = FlatExplode(f) /\ pc' = "reduce"
               ELSE IF SplitPlaces(f) # {}
               THEN Flat(Unwrap(fish'.total), 0) = FlatSplit(f) /\ pc' = "reduce"
               ELSE fish'.total = fish.total /\ pc' = "for_node"]_vars
    /\ []((pc \in {"for_node", "sum_done"} /\ fish.next > 2) => IsReduced(TotalFlat))
    /\ []((pc = "sum_done" /\ fish.numbers # <<>>) =>
            /\ fish.numbers = SimpleList(4) => Unwrap(fish.total) = SimpleGoal4
            /\ fish.numbers = SimpleList(5) => Unwrap(fish.total) = SimpleGoal5
            /\ fish.numbers = SimpleList(6) => Unwrap(fish.total) = SimpleGoal6
            /\ fish.numbers = SlightlyLarger => Unwrap(fish.total) = SlightlyLargerGoal)

\* the ten numbers of the larger test are summed
SlightlyLargerIsSummed ==
    /\ pc = "sum_done"
    /\ fish.numbers = SlightlyLarger
    /\ fish.result = Some("Ok")
    /\ Unwrap(fish.total) = SlightlyLargerGoal

\* the sum of the regular numbers of an edge, each times the factor its path
\* gives it: 3 for every step west, 2 for every step east
RECURSIVE Weighted(_, _)
Weighted(edge, factor) ==
    IF IsLeaf(edge)
    THEN factor * edge[1]
    ELSE Weighted(edge[1], 3 * factor) + Weighted(edge[2], 2 * factor)

\* C21: the magnitude of a pair is 3 times the magnitude of its west element
\* plus 2 times the magnitude of its east element, the magnitude of a regular
\* number being the number; the numbers of test_magnitude have the magnitudes
\* the test expects.
MagnitudeIsThreeWestTwoEast ==
    pc = "magnitude" =>
        \E total \in {Unwrap(fish.total)} :
            /\ Unwrap(fish.magnitude) = 3 * Weighted(total[1], 1) + 2 * Weighted(total[2], 1)
            /\ total = MagnitudeSmall => Unwrap(fish.magnitude) = 143
            /\ total = MagnitudeLarge => Unwrap(fish.magnitude) = 1384
            /\ total = SimpleGoal4 => Unwrap(fish.magnitude) = 445
            /\ total = SimpleGoal5 => Unwrap(fish.magnitude) = 791
            /\ total = SimpleGoal6 => Unwrap(fish.magnitude) = 1137
            /\ total = SlightlyLargerGoal => Unwrap(fish.magnitude) = 3488

\* the magnitude of the sum of the larger test is taken
MagnitudeOfTheLargerSum ==
    /\ pc = "magnitude"
    /\ fish.numbers = SlightlyLarger
    /\ Unwrap(fish.total) = SlightlyLargerGoal
    /\ Unwrap(fish.magnitude) = 3488

\* the number of pairs of distance d in the index of scan s
PairCount(s, d) == Cardinality(s.edges[d])

\* C22: align visits the shared distances in ascending order of the number of
\* candidate pairs: a distance with fewer pairs in the candidate (them) is
\* never placed after one with more.
SharedSortedByCandidatePairs ==
    pc = "align" =>
        \A d1 \in Shared(Unwrap(core), scans[i]) :
            \A d2 \in Shared(Unwrap(core), scans[i]) :
                PairCount(scans[i], d1) < PairCount(scans[i], d2) =>
                    SortKey(Unwrap(core), scans[i], d1) <= SortKey(Unwrap(core), scans[i], d2)

\* the places in walk order of the running products that map w to v
HitsOf(w, v) == {k \in 1..Len(Products) : MulMV(Products[k], w) = v}

\* what line 74-77 do for the reference pair vp and the candidate pair wp
OnePoseFor(vp, wp) ==
    \E v \in {VSub(vp[2], vp[1])} : \E w \in {VSub(wp[2], wp[1])} :
    \E hits \in {HitsOf(w, v)} : \E poses \in {PosesOf(vp, wp)} :
        /\ Cardinality(poses) <= 1
        /\ hits = {} => (poses = {} /\ RotatesInto(w, v) = None)
        /\ hits # {} =>
              \E k \in hits :
                 /\ \A j \in hits : k <= j
                 /\ RotatesInto(w, v) = Some(Products[k])
                 /\ poses = {<<Products[k], VSub(vp[1], MulMV(Products[k], wp[1]))>>}
        /\ \A p \in poses :
              /\ MulMV(p[1], w) = v
              /\ VAdd(MulMV(p[1], wp[1]), p[2]) = vp[1]
              /\ VAdd(MulMV(p[1], wp[2]), p[2]) = vp[2]

\* the pairs of pairs of the classes that a call goes through
EveryPairOfPairsHasOnePose ==
    pc = "align" =>
        \A d \in Shared(Unwrap(core), scans[i]) :
            \A vp \in Unwrap(core).edges[d] : \A wp \in scans[i].edges[d] :
                OnePoseFor(vp, wp)

\* C23: for a reference pair and a candidate pair of one distance class align
\* tests at most one pose: the first rotation R of the walk with
\* R*(w2 - w1) = v2 - v1 (none exactly when no rotation of the walk does it)
\* and t = v1 - R*w1; that pose maps w1 to v1 and w2 to v2.
AlignTestsOnePosePerPair == []EveryPairOfPairsHasOnePose

\* in one class of a call one pair of pairs has several rotations that fit,
\* and another has none
SeveralRotationsFit ==
    /\ pc = "align"
    /\ \E d \in Shared(Unwrap(core), scans[i]) :
          /\ \E vp \in Unwrap(core).edges[d] : \E wp \in scans[i].edges[d] :
                /\ Cardinality(HitsOf(VSub(wp[2], wp[1]), VSub(vp[2], vp[1]))) >= 2
                /\ PosesOf(vp, wp) # {}
          /\ \E vp \in Unwrap(core).edges[d] : \E wp \in scans[i].edges[d] :
                PosesOf(vp, wp) = {}

\* every pose that passes the test of line 80, for any shared distance and
\* any pair of pairs: what a search in any order can come upon
AllAccepted(self, them) ==
    UNION {AcceptedIn(self, them, d) : d \in Shared(self, them)}

\* C24: whether a call of align succeeds does not depend on the order of the
\* visit: it succeeds exactly when some pose of some shared class passes the
\* test, and returns one of these poses; which one may depend on the order.
SuccessIsOrderIndependent ==
    [][pc = "align" =>
        \E all \in {AllAccepted(Unwrap(core), scans[i])} :
            /\ scanners' # scanners <=> all # {}
            /\ IsSome(scans'[i].transformation) <=> all # {}
            /\ all # {} => Unwrap(scans'[i].transformation) \in all]_vars

\* a call that can return either of two transformations, by the order
TwoTransformationsPossible ==
    /\ pc = "align"
    /\ \E res \in {AlignResults(Unwrap(core), scans[i])} :
          \E a \in res : \E b \in res : a # b

\* some pair of pairs of a shared distance gives a pose to test
SomePoseIsTested(self, them) ==
    \E d \in Shared(self, them) :
        \E vp \in self.edges[d] : \E wp \in them.edges[d] : PosesOf(vp, wp) # {}

\* C25: when the candidate or the reference has fewer than 12 points, align
\* returns None and merges nothing.
FewerThanTwelveNeverAligns ==
    [][(/\ pc = "align"
        /\ \/ Cardinality(scans[i].blips) < 12
           \/ Cardinality(Unwrap(core).blips) < 12) =>
            /\ scanners' = scanners
            /\ core' = core
            /\ scans' = scans]_vars

\* a call with a reference of fewer than 12 points and a candidate of 12 has
\* tested poses and has failed
SmallReferenceHasFailed ==
    /\ pc = "for"
    /\ i = 2
    /\ Cardinality(Unwrap(core).blips) < 12
    /\ Cardinality(scans[1].blips) >= 12
    /\ scans[1].transformation = None
    /\ SomePoseIsTested(Unwrap(core), scans[1])

\* every row and every column holds one entry 1 or -1, and zeros
IsSignedPermutation(m) ==
    /\ \A r \in 1..3 : \A c \in 1..3 : m[r][c] \in {-1, 0, 1}
    /\ \A r \in 1..3 : IAbs(m[r][1]) + IAbs(m[r][2]) + IAbs(m[r][3]) = 1
    /\ \A c \in 1..3 : IAbs(m[1][c]) + IAbs(m[2][c]) + IAbs(m[3][c]) = 1

\* the poses tested by the search of align, over the shared distances
PosesOverShared(self, them) ==
    UNION {UNION {PosesOf(vp, wp) : vp \in self.edges[d], wp \in them.edges[d]}
            : d \in Shared(self, them)}

\* the reference pairs a rotation of the walk can map the candidate pair wp
\* onto, taken from the points, not from the index
RotatedOnto(self, wp) ==
    UNION {{<<a, VAdd(a, v)>> : a \in {b \in self.blips : VAdd(b, v) \in self.blips}}
            : v \in {MulMV(Products[k], VSub(wp[2], wp[1])) : k \in 1..Len(Products)}}

\* the poses a search over all pairs of ordered pairs of distinct points tests
PosesOverAllPairs(self, them) ==
    UNION {UNION {PosesOf(vp, wp) : vp \in RotatedOnto(self, wp)}
            : wp \in EdgePairs(them.blips)}

\* the search of one call, compared with the search over all pairs
PrunedSearchIsComplete ==
    /\ \A k \in 1..Len(Products) : IsSignedPermutation(Products[k])
    /\ pc = "align" =>
          \E self \in {Unwrap(core)} : \E them \in {scans[i]} :
             /\ \A wp \in EdgePairs(them.blips) :
                   /\ \A k \in 1..Len(Products) :
                         VAbs(MulMV(Products[k], VSub(wp[2], wp[1])))
                             = VAbs(VSub(wp[2], wp[1]))
                   /\ \A vp \in RotatedOnto(self, wp) :
                         /\ EdgeKey(vp) = EdgeKey(wp)
                         /\ EdgeKey(vp) \in Shared(self, them)
                         /\ vp \in self.edges[EdgeKey(vp)]
                         /\ wp \in them.edges[EdgeKey(vp)]
             /\ PosesOverAllPairs(self, them) = PosesOverShared(self, them)

\* C26: every rotation of the walk is a signed permutation matrix and keeps
\* the Manhattan norm; whenever a rotation maps a candidate difference onto a
\* reference difference, both pairs are in the class of one distance that both
\* indices hold; the search over the shared distances tests exactly the poses
\* that a search over all pairs of pairs would test.
PruningLosesNothing == []PrunedSearchIsComplete

\* a call in which the indices hold distances that are not shared, and poses
\* are tested
UnsharedDistancesAreSkipped ==
    /\ pc = "align"
    /\ DOMAIN scans[i].edges # Shared(Unwrap(core), scans[i])
    /\ DOMAIN Unwrap(core).edges # Shared(Unwrap(core), scans[i])
    /\ PosesOverShared(Unwrap(core), scans[i]) # {}

\* the call core.align(scans[i]) of this step has returned Ok
AlignSucceeds ==
    /\ pc = "align"
    /\ scans'[i].transformation # None

MappedByStep == Mapped(scans[i].blips, Unwrap(scans'[i].transformation))

\* C28: a successful alignment adds exactly the mapped candidate points that
\* the reference did not hold; at least 12 mapped points were held already and
\* the mapping is injective, so the reference grows by at most the
\* candidate's count less 12, and never shrinks.
MergeAddsOnlyTheNewMappedPoints ==
    [][AlignSucceeds =>
          /\ Unwrap(core').blips = Unwrap(core).blips \cup MappedByStep
          /\ Unwrap(core').blips \ Unwrap(core).blips
                = MappedByStep \ Unwrap(core).blips
          /\ Cardinality(MappedByStep \cap Unwrap(core).blips)
                >= MINIMUM_OVERLAP_FOR_ALIGNMENT
          /\ Cardinality(MappedByStep) = Cardinality(scans[i].blips)
          /\ Cardinality(Unwrap(core').blips)
                <= Cardinality(Unwrap(core).blips)
                     + Cardinality(scans[i].blips) - MINIMUM_OVERLAP_FOR_ALIGNMENT
          /\ Cardinality(Unwrap(core').blips) >= Cardinality(Unwrap(core).blips)]_vars

\* a successful alignment has added points to the first cloud of the file
ReferenceHasGrown ==
    /\ pc = "for"
    /\ \E k \in 1..Len(scans) : ~IsPending(scans[k])
    /\ Cardinality(Unwrap(core).blips) > Cardinality(input[1])

\* the clouds in front of position k of the loop that a call has merged
MergedBefore(k) == {j \in 1..(k - 1) : ~IsPending(scans[j])}

\* the reference that a call is made on holds the merged clouds, indexed
AttemptSeesEarlierMerges ==
    pc = "align" =>
       \E self \in {Unwrap(core)} : \E fresh \in {ScanFrom(Unwrap(core).blips)} :
          /\ \A j \in MergedBefore(i) :
                Mapped(scans[j].blips, Unwrap(scans[j].transformation))
                    \subseteq self.blips
          /\ self.edges = fresh.edges
          /\ AlignResults(fresh, scans[i]) = AlignResults(self, scans[i])

\* one call per pending cloud, from the last cloud of the file to the second
AttemptsGoDownTheInput ==
    /\ (pc = "for" /\ pc' = "align") =>
          /\ i' = i
          /\ pass' = pass
          /\ scans[i].blips = input[Len(input) + 1 - i]
    /\ pc = "align" =>
          /\ i' = i + 1
          /\ pass' = pass
          /\ pc' = "for"
          /\ AlignSucceeds =>
                core' = Some(ScanFrom(Unwrap(core).blips \cup MappedByStep))

\* C29: within one pass a success takes effect at once: the mapped points
\* are merged and the index is refreshed before the next pending cloud of
\* the pass is attempted, and the clouds are attempted in the reverse of
\* their order in the input.
SuccessTakesEffectInThePass ==
    /\ []AttemptSeesEarlierMerges
    /\ [][AttemptsGoDownTheInput]_vars

\* in the first pass a cloud that the first cloud of the file rejects is
\* attempted after the merge of the cloud behind it in the file, and fits
SecondAttemptOfThePassFits ==
    /\ pc = "align"
    /\ pass = 1
    /\ i = 2
    /\ ~IsPending(scans[1])
    /\ AlignResults(ScanFrom(input[1]), scans[2]) = {}
    /\ AlignResults(Unwrap(core), scans[2]) # {}

\* the die of the game has fewer than three values left
DieIsShort(g) ==
    /\ IsSome(g.die)
    /\ IsSome(Unwrap(g.die).stop)
    /\ Unwrap(Unwrap(g.die).stop) - Unwrap(g.die).next < RollsPerRound

\* C30: play_round on a game that has ended returns Err(GameEnded), and with
\* a die that yields fewer than three values it returns Err(BrokenDie); in
\* both cases the round counter and every player's field and score are
\* unchanged.
FailedRoundChangesNoPlayer ==
    [][pc = "game" =>
          /\ HasEnded(game) => game'.result = "GameEnded"
          /\ DieIsShort(game) => game'.result = "BrokenDie"
          /\ game'.result = "GameEnded" => HasEnded(game)
          /\ game'.result = "BrokenDie" => DieIsShort(game)
          /\ game'.result \in {"GameEnded", "BrokenDie"} =>
                /\ game'.round = game.round
                /\ game'.players = game.players
                /\ game'.max = game.max]_vars

\* the die broke after rounds had been played
DieBrokeAfterSomeRounds ==
    /\ pc = "game"
    /\ game.result = "BrokenDie"
    /\ game.round >= 2
    /\ \A k \in 1..Len(game.players) : game.players[k].score > 0

====
